---- MODULE Spec2Model ----
(* Verification model of generate_video.py: the title-card / normalise /    *)
(* stitch / cleanup pipeline, its worker pools and its path resolver.      *)
(* Strings are sequences of one-character strings so that lower(), title(), *)
(* os.path.splitext and os.path.basename are computed, not assumed.        *)
EXTENDS Integers, Sequences, FiniteSets, TLC

(***************************************************************************)
(* Python string and os.path primitives                                    *)
(***************************************************************************)
ascii_uppercase == <<"A", "B", "C", "D", "E", "F", "G", "H", "I", "J", "K", "L", "M", "N", "O", "P", "Q", "R", "S", "T", "U", "V", "W", "X", "Y", "Z">>
ascii_lowercase == <<"a", "b", "c", "d", "e", "f", "g", "h", "i", "j", "k", "l", "m", "n", "o", "p", "q", "r", "s", "t", "u", "v", "w", "x", "y", "z">>

to_lower == [c \in {ascii_uppercase[i] : i \in 1..26} |->
                ascii_lowercase[CHOOSE i \in 1..26 : ascii_uppercase[i] = c]]
to_upper == [c \in {ascii_lowercase[i] : i \in 1..26} |->
                ascii_uppercase[CHOOSE i \in 1..26 : ascii_lowercase[i] = c]]

lower_char(c) == IF c \in DOMAIN to_lower THEN to_lower[c] ELSE c

upper_char(c) == IF c \in DOMAIN to_upper THEN to_upper[c] ELSE c

is_alpha(c) == c \in DOMAIN to_lower \/ c \in DOMAIN to_upper

\* The string operators take their argument by value, as a Python call does:
\* it is bound once (v) and the result is computed from that value.

\* str.lower()
lower(s) ==
    CHOOSE r \in {[i \in 1..Len(v) |-> lower_char(v[i])] : v \in {s}} : TRUE

\* str.title(): first letter of every run of letters upper-cased, the rest lower-cased
title(s) ==
    CHOOSE r \in
        { [i \in 1..Len(v) |->
              IF i = 1 \/ ~is_alpha(v[i - 1]) THEN upper_char(v[i]) ELSE lower_char(v[i])]
          : v \in {s} } : TRUE

\* s.rfind(c), 1-based; 0 when c does not occur
RECURSIVE rfind_from(_, _, _)
rfind_from(s, c, i) ==
    IF i = 0 THEN 0 ELSE IF s[i] = c THEN i ELSE rfind_from(s, c, i - 1)

rfind(s, c) ==
    CHOOSE r \in {rfind_from(v, c, Len(v)) : v \in {s}} : TRUE

\* os.path.splitext (posixpath): the extension starts at the last dot of the
\* last path component, unless that component has only leading dots before it
splitext(p) ==
    CHOOSE r \in
        { LET sepIndex == rfind(v, "/")
              dotIndex == rfind(v, ".")
          IN  IF dotIndex > sepIndex
                 /\ \E k \in (sepIndex + 1)..(dotIndex - 1) : v[k] # "."
              THEN <<SubSeq(v, 1, dotIndex - 1), SubSeq(v, dotIndex, Len(v))>>
              ELSE <<v, <<>> >>
          : v \in {p} } : TRUE

\* os.path.basename
basename(p) ==
    CHOOSE r \in {SubSeq(v, rfind(v, "/") + 1, Len(v)) : v \in {p}} : TRUE

\* os.path.dirname
dirname(p) ==
    CHOOSE r \in {SubSeq(v, 1, rfind(v, "/") - 1) : v \in {p}} : TRUE

\* str.split(): maximal runs of non-blank characters
RECURSIVE split_from(_, _, _)
split_from(s, i, word) ==
    IF i > Len(s)
    THEN IF word = <<>> THEN <<>> ELSE <<word>>
    ELSE IF s[i] = " "
         THEN (IF word = <<>> THEN <<>> ELSE <<word>>) \o split_from(s, i + 1, <<>>)
         ELSE split_from(s, i + 1, Append(word, s[i]))

split(s) ==
    CHOOSE r \in {split_from(v, 1, <<>>) : v \in {s}} : TRUE

\* ' '.join(words)
RECURSIVE join_blank(_)
join_blank(words) ==
    IF words = <<>> THEN <<>>
    ELSE IF Len(words) = 1 THEN words[1]
    ELSE words[1] \o <<" ">> \o join_blank(Tail(words))

(***************************************************************************)
(* Module constants of generate_video.py                                   *)
(***************************************************************************)
HEIGHT == 1080
TITLE_CARD_DURATION == 5
FPS == 30
ALL_VIDEOS_TXT_FILE == <<"a", "l", "l", "_", "v", "i", "d", "e", "o", "s", ".", "t", "x", "t">>
TITLE_CARDS_FOLDER == <<"t", "i", "t", "l", "e", "_", "c", "a", "r", "d", "s">>
CONVERTED_VIDEOS_FOLDER == <<"c", "o", "n", "v", "e", "r", "t", "e", "d", "_", "v", "i", "d", "e", "o", "s">>
FINAL_VIDEO == <<"F", "I", "N", "A", "L", "_", "V", "I", "D", "E", "O", ".", "m", "p", "4">>
words_per_line == 9

slash == <<"/">>
dot_mp4 == <<".", "m", "p", "4">>
str_titlecard == <<"_", "t", "i", "t", "l", "e", "c", "a", "r", "d">>
str_converted == <<"_", "c", "o", "n", "v", "e", "r", "t", "e", "d">>
str_titlecard_converted == <<"_", "t", "i", "t", "l", "e", "c", "a", "r", "d", "_", "c", "o", "n", "v", "e", "r", "t", "e", "d">>

\* the value pandas gives an empty cell: a float, truthy, with no str methods
NaN == <<"NaN">>
dash == <<"-">>

(***************************************************************************)
(* Filename resolver                                                       *)
(***************************************************************************)
get_video_filename(filename, ext) ==
    LET f == splitext(filename)
    IN  IF ~ext THEN f[1]
        ELSE f[1] \o (IF f[2] # <<>> THEN f[2] ELSE dot_mp4)

\* final_video_entries with line 206 (video = video.lower()) left out
final_video_entries_keep_case(performer, title_cards, converted) ==
    LET video0 == get_video_filename(performer["Video File Name"], TRUE)
        filename == splitext(video0)[1]
        ext == splitext(video0)[2]
        video == IF converted
                 THEN CONVERTED_VIDEOS_FOLDER \o slash \o filename \o str_converted \o ext
                 ELSE video0
        title_card == IF converted
                      THEN CONVERTED_VIDEOS_FOLDER \o slash \o filename
                               \o str_titlecard_converted \o ext
                      ELSE TITLE_CARDS_FOLDER \o slash \o filename \o str_titlecard \o ext
    IN  (IF title_cards THEN <<lower(title_card)>> ELSE <<>>) \o <<video>>

\* one iteration of the loop of get_final_videos: the entries appended for
\* one performer
final_video_entries(performer, title_cards, converted) ==
    LET video0 == get_video_filename(performer["Video File Name"], TRUE)
        filename == splitext(video0)[1]
        ext == splitext(video0)[2]
        title_card0 == TITLE_CARDS_FOLDER \o slash \o filename \o str_titlecard \o ext
        video == IF converted
                 THEN lower(CONVERTED_VIDEOS_FOLDER \o slash \o filename \o str_converted \o ext)
                 ELSE video0
        title_card == IF converted
                      THEN CONVERTED_VIDEOS_FOLDER \o slash \o filename
                               \o str_titlecard_converted \o ext
                      ELSE title_card0
    IN  (IF title_cards THEN <<lower(title_card)>> ELSE <<>>) \o <<video>>

\* get_final_videos_of building the list back to front
RECURSIVE get_final_videos_reversed(_, _, _)
get_final_videos_reversed(data, title_cards, converted) ==
    IF data = <<>> THEN <<>>
    ELSE get_final_videos_reversed(Tail(data), title_cards, converted)
            \o final_video_entries(Head(data), title_cards, converted)

\* the loop of get_final_videos over the performer list `data`
RECURSIVE get_final_videos_of(_, _, _)
get_final_videos_of(data, title_cards, converted) ==
    IF data = <<>> THEN <<>>
    ELSE final_video_entries(Head(data), title_cards, converted)
            \o get_final_videos_of(Tail(data), title_cards, converted)

\* the path create_single_title_card writes
title_card_path(performer_data) ==
    TITLE_CARDS_FOLDER \o slash
        \o get_video_filename(lower(performer_data["Video File Name"]), FALSE)
        \o str_titlecard \o dot_mp4

\* the path convert_single_video writes
video_path(filename) ==
    CONVERTED_VIDEOS_FOLDER \o slash \o lower(splitext(basename(filename))[1])
        \o str_converted \o dot_mp4

\* "file '<path>'" line of the manifest
file_directive(v) == <<"f", "i", "l", "e", " ", "'">> \o v \o <<"'">>

(***************************************************************************)
(* create_single_title_card: the clips handed to CompositeVideoClip, or    *)
(* the exception raised before the compositor is reached                   *)
(***************************************************************************)
\* Python truthiness of a cell value: '' is falsy, text and NaN are truthy
truthy(v) == v # <<>>

\* `raw and raw != '-'`
field_given(raw) == truthy(raw) /\ raw # dash

TextClip(txt, fontsize, pos) == [text |-> txt, fontsize |-> fontsize, pos |-> pos]

\* lines 71-78: one clip per line of words_per_line words
RECURSIVE description_clips(_, _, _)
description_clips(desc, i, pos) ==
    IF i > Len(desc) THEN <<>>
    ELSE LET j == IF i + words_per_line - 1 < Len(desc)
                  THEN i + words_per_line - 1 ELSE Len(desc)
         IN  <<TextClip(join_blank(SubSeq(desc, i, j)), 45, pos)>>
                 \o description_clips(desc, i + words_per_line, pos + 60)

title_card_clips(performer_data) ==
    LET name_clip == TextClip(title(performer_data["Name"]), 85, HEIGHT \div 6)
        location_clip ==
            TextClip(<<"(">> \o title(performer_data["Location"]) \o <<")">>,
                     60, (HEIGHT \div 6) + 90)
        raw_description == performer_data["Description"]
        raw_composition == performer_data["Composition"]
        raw_raag == performer_data["Raag"]
        raw_taal == performer_data["Taal"]
        descriptions == description_clips(split(raw_description), 1, (HEIGHT \div 3) + 40)
        composition == TextClip(title(raw_composition), 80, (HEIGHT \div 2) + 80)
        raag == TextClip(<<"R", "a", "a", "g", " ">> \o title(raw_raag), 70,
                         (HEIGHT \div 2) + 190)
        taal == TextClip(<<"(">> \o title(raw_taal) \o <<")">>, 60, (HEIGHT \div 2) + 280)
        raise(e) == [error |-> e, clips |-> <<>>]
    IN  \* line 71: NaN has no split()
        IF field_given(raw_description) /\ raw_description = NaN THEN raise("AttributeError")
        \* line 74: desc was never bound
        ELSE IF ~field_given(raw_description) THEN raise("NameError")
        \* line 84: NaN has no title(); line 85: None has no set_position()
        ELSE IF ~field_given(raw_composition) \/ raw_composition = NaN
        THEN raise("AttributeError")
        \* lines 91-92
        ELSE IF ~field_given(raw_raag) \/ raw_raag = NaN THEN raise("AttributeError")
        \* lines 98-99
        ELSE IF ~field_given(raw_taal) \/ raw_taal = NaN THEN raise("AttributeError")
        ELSE [error |-> "none",
              clips |-> <<name_clip, location_clip>> \o descriptions
                            \o <<composition, raag, taal>>]

(***************************************************************************)
(* Inputs                                                                  *)
(***************************************************************************)
MaxPerformers == 2
NumWorkers == 2
MaxToolFailures == 1
MaxCalls == 2

Workers == 1..NumWorkers

\* 'Video File Name' cells: no extension, its upper-case twin, an extension
\* other than .mp4, a directory component
FileNames ==
    { <<"a">>,
      <<"A">>,
      <<"a", ".", "m", "o", "v">>,
      <<"d", "/", "a", ".", "m", "p", "4">> }

short_text == <<"a", "b", " ", "c", "d">>
long_text == <<"a", " ", "b", " ", "c", " ", "d", " ", "e", " ", "f", " ", "g", " ", "h", " ", "i", " ", "j">>

Performer(file, description, composition, raag, taal) ==
    [k \in {"Name", "Location", "Video File Name", "Description",
            "Composition", "Raag", "Taal"} |->
        CASE k = "Name" -> <<"r", "a", "m", " ", "k">>
          [] k = "Location" -> <<"p", "u", "n", "e">>
          [] k = "Video File Name" -> file
          [] k = "Description" -> description
          [] k = "Composition" -> composition
          [] k = "Raag" -> raag
          [] k = "Taal" -> taal]

\* rows of the spreadsheet a pipeline run is given
Records ==
    { Performer(f, short_text, <<"t", "a", "r", "a", "n", "a">>, <<"y", "a", "m", "a", "n">>, <<"t", "e", "e", "n", "t", "a", "l">>) : f \in FileNames }
    \cup { Performer(<<"c", ".", "m", "p", "4">>, dash, <<"t", "a", "r", "a", "n", "a">>, <<"y", "a", "m", "a", "n">>, <<"t", "e", "e", "n", "t", "a", "l">>) }

\* cell values of an optional column
OptionalValues == { <<"y", "a", "m", "a", "n">>, <<>>, dash, NaN }
DescriptionValues == { short_text, long_text, <<>>, dash, NaN }

\* rows a single call of create_single_title_card is given
CallRecords ==
    { Performer(<<"a">>, d, c, r, t) :
        d \in DescriptionValues, c \in OptionalValues, r \in OptionalValues,
        t \in OptionalValues }
    \cup { r \in Records : field_given(r["Description"]) }

SeqsUpTo(S, n) == UNION { [1..k -> S] : k \in 1..n }

RECURSIVE ancestors(_)
ancestors(p) ==
    IF dirname(p) = <<>> THEN {} ELSE {dirname(p)} \cup ancestors(dirname(p))

seq_set(s) == { s[i] : i \in 1..Len(s) }

\* bag of invocations per target path
count(bag, x) == IF x \in DOMAIN bag THEN bag[x] ELSE 0
add(bag, x) ==
    CHOOSE r \in
        { [y \in DOMAIN bag \cup {v} |-> IF y = v THEN count(bag, v) + 1 ELSE bag[y]]
          : v \in {x} } : TRUE
empty_bag == [y \in {} |-> 0]

(***************************************************************************)
(* State                                                                   *)
(***************************************************************************)
VARIABLES
    PERFORMER_DATA,  \* the rows read from the spreadsheet
    files,           \* regular files on disk
    dirs,            \* directories on disk
    manifest,        \* lines of all_videos.txt
    pc,              \* position of the main program
    tasks,           \* the iterable handed to the pool.map in flight
    worker,          \* per pool worker: position, current item, end of its chunk
    next_task,       \* index of the first item not yet handed to a worker
    number_left,     \* chunks of the current pool.map still outstanding
    map_error,       \* first exception raised by a work item of the current map
    rendered,        \* write_videofile invocations per title-card path
    transcoded,      \* ffmpeg transcode invocations per target path
    concat_calls,    \* ffmpeg concat invocations
    manifest_writes, \* times create_video_list_file wrote all_videos.txt
    concat_read,     \* lines of all_videos.txt the last ffmpeg concat was given
    tool_failures,   \* render/ffmpeg failures injected so far
    failed,          \* stages that failed in this run
    error,           \* paths reported by ensure_videos_exist
    launched,        \* pool.map launches per phase
    completed,       \* work items finished (run or skipped) per phase
    files0,          \* files on disk when the run started
    dirs0,           \* directories on disk when the run started
    calls,           \* direct calls made per target path
    final_clips,     \* argument of the last CompositeVideoClip call
    exc              \* exception raised by the last direct call

vars == <<PERFORMER_DATA, files, dirs, manifest, pc, tasks, worker, next_task, number_left,
          map_error, rendered, transcoded, concat_calls, manifest_writes, concat_read,
          tool_failures, failed,
          error, launched, completed, files0, dirs0, calls, final_clips, exc>>

exists(path) == path \in files \/ path \in dirs

get_final_videos(title_cards, converted) ==
    get_final_videos_of(PERFORMER_DATA, title_cards, converted)

idle_worker == [pc |-> "idle", phase |-> "none", item |-> 0, last |-> 0]
stale_manifest == <<file_directive(<<"o", "l", "d", ".", "m", "p", "4">>)>>

\* every file a run over `data` writes below its two folders
title_card_targets(data) == { title_card_path(data[i]) : i \in 1..Len(data) }
converted_targets(data) ==
    { video_path(v) : v \in seq_set(get_final_videos_of(data, TRUE, FALSE)) }

leftover_candidates(data) == title_card_targets(data) \cup converted_targets(data)

\* what an earlier run over the same sheet left on disk: nothing, its title
\* cards (stopped before convert_videos), or everything up to the final
\* video (stopped before cleanup)
earlier_run(data, stage) ==
    CASE stage = "none" -> {}
      [] stage = "title_cards" -> title_card_targets(data)
      [] stage = "stitched" ->
            leftover_candidates(data) \cup {ALL_VIDEOS_TXT_FILE, FINAL_VIDEO}

Init ==
    /\ PERFORMER_DATA \in SeqsUpTo(Records, MaxPerformers)
    /\ \E present \in SUBSET seq_set(get_final_videos_of(PERFORMER_DATA, FALSE, FALSE)),
          stage \in {"none", "title_cards", "stitched"} :
            files = present \cup earlier_run(PERFORMER_DATA, stage)
    /\ dirs = UNION { ancestors(f) : f \in files }
    /\ manifest = IF ALL_VIDEOS_TXT_FILE \in files THEN stale_manifest ELSE <<>>
    /\ pc = "start"
    /\ tasks = <<>>
    /\ worker = [w \in Workers |-> idle_worker]
    /\ next_task = 1
    /\ number_left = 0
    /\ map_error = "none"
    /\ rendered = empty_bag
    /\ transcoded = empty_bag
    /\ concat_calls = 0
    /\ manifest_writes = 0
    /\ concat_read = <<>>
    /\ tool_failures = 0
    /\ failed = {}
    /\ error = <<>>
    /\ launched = [p \in {"title_cards", "convert"} |-> 0]
    /\ completed = [p \in {"title_cards", "convert"} |-> 0]
    /\ files0 = files
    /\ dirs0 = dirs
    /\ calls = empty_bag
    /\ final_clips = <<>>
    /\ exc = "none"

(***************************************************************************)
(* multiprocessing.Pool.map                                                *)
(***************************************************************************)
\* Pool._map_async: chunksize, extra = divmod(len(iterable), len(pool) * 4)
chunksize(n) ==
    IF n % (NumWorkers * 4) = 0 THEN n \div (NumWorkers * 4)
    ELSE (n \div (NumWorkers * 4)) + 1

number_of_chunks(n) == IF n = 0 THEN 0 ELSE (n + chunksize(n) - 1) \div chunksize(n)

\* pool.map returning as soon as every item has been handed to a worker
map_ready_when_dispatched == next_task > Len(tasks)

\* MapResult: pool.map returns (or re-raises) only once every chunk is back
map_ready == number_left = 0

\* a free worker has a next item: the rest of its chunk, or the next chunk
can_take(w) ==
    /\ worker[w].pc = "idle"
    /\ \/ worker[w].item < worker[w].last
       \/ worker[w].item = worker[w].last /\ next_task <= Len(tasks)

taken_item(w) == IF worker[w].item < worker[w].last THEN worker[w].item + 1 ELSE next_task

taken_last(w) ==
    IF worker[w].item < worker[w].last THEN worker[w].last
    ELSE LET n == Len(tasks)
             e == next_task + chunksize(n) - 1
         IN  IF e < n THEN e ELSE n

\* finish_item that loses the chunk of an item that raised: the map keeps waiting
finish_item_raise_lost(w, phase, item, last, raised) ==
    /\ completed' = [completed EXCEPT ![phase] = @ + 1]
    /\ IF raised
       THEN /\ worker' = [worker EXCEPT ![w] = idle_worker]
            /\ UNCHANGED number_left
       ELSE IF item = last
       THEN /\ worker' = [worker EXCEPT ![w] = idle_worker]
            /\ number_left' = number_left - 1
       ELSE /\ worker' = [worker EXCEPT ![w] =
                            [pc |-> "idle", phase |-> phase, item |-> item, last |-> last]]
            /\ UNCHANGED number_left

\* worker w finished item `item` of a chunk ending at `last`; raised: by exception
finish_item(w, phase, item, last, raised) ==
    /\ completed' = [completed EXCEPT ![phase] = @ + 1]
    /\ IF raised \/ item = last
       THEN /\ worker' = [worker EXCEPT ![w] = idle_worker]
            /\ number_left' = number_left - 1
       ELSE /\ worker' = [worker EXCEPT ![w] =
                            [pc |-> "idle", phase |-> phase, item |-> item, last |-> last]]
            /\ UNCHANGED number_left

launch_map(phase, iterable) ==
    /\ tasks' = iterable
    /\ next_task' = 1
    /\ number_left' = number_of_chunks(Len(iterable))
    /\ map_error' = "none"
    /\ launched' = [launched EXCEPT ![phase] = @ + 1]

(***************************************************************************)
(* __main__ and the stages                                                 *)
(***************************************************************************)
\* missing_videos stopping at the first missing file
missing_videos_first_only ==
    LET all == SelectSeq(get_final_videos(FALSE, FALSE), LAMBDA v : ~exists(v))
    IN  IF all = <<>> THEN <<>> ELSE <<all[1]>>

\* ensure_videos_exist, line 164
missing_videos ==
    SelectSeq(get_final_videos(FALSE, FALSE), LAMBDA v : ~exists(v))

\* ensure_videos_exist printing the missing files instead of raising
EnsureVideosExist_warn_only ==
    /\ pc = "start"
    /\ IF missing_videos # <<>>
       THEN /\ error' = missing_videos
            /\ failed' = failed \cup {"preflight"}
       ELSE UNCHANGED <<error, failed>>
    /\ pc' = "create_title_cards"
    /\ UNCHANGED <<PERFORMER_DATA, manifest_writes, concat_read, tasks, files, dirs, manifest, worker, next_task, number_left,
                   map_error, rendered, transcoded, concat_calls, tool_failures,
                   launched, completed, files0, dirs0, calls, final_clips, exc>>

\* ensure_videos_exist as called from __main__, lines 163-167 and 273
EnsureVideosExist ==
    /\ pc = "start"
    /\ IF missing_videos # <<>>
       THEN /\ error' = missing_videos
            /\ failed' = failed \cup {"preflight"}
            /\ pc' = "aborted"
       ELSE /\ pc' = "create_title_cards"
            /\ UNCHANGED <<error, failed>>
    /\ UNCHANGED <<PERFORMER_DATA, manifest_writes, concat_read, tasks, files, dirs, manifest, worker, next_task, number_left,
                   map_error, rendered, transcoded, concat_calls, tool_failures,
                   launched, completed, files0, dirs0, calls, final_clips, exc>>

\* create_title_cards up to the pool.map call
CreateTitleCards ==
    /\ pc = "create_title_cards"
    /\ dirs' = dirs \cup {TITLE_CARDS_FOLDER}
    /\ launch_map("title_cards", PERFORMER_DATA)
    /\ pc' = "map_title_cards"
    /\ UNCHANGED <<PERFORMER_DATA, manifest_writes, concat_read, files, manifest, worker, rendered, transcoded,
                   concat_calls, tool_failures, failed, error, completed, files0, dirs0,
                   calls, final_clips, exc>>

\* create_single_title_card without its early return
title_card_never_created(path) == FALSE

\* line 52: the skip-if-exists test of create_single_title_card
title_card_created(path) == exists(path)

\* convert_single_video without its early return
video_never_converted(path) == FALSE

\* line 224: the skip-if-exists test of convert_single_video
video_converted(path) == exists(path)

\* cvc_title.write_videofile(path): writes the file, or raises when the
\* encoder cannot open the output or fails
write_videofile(path, ok) ==
    /\ rendered' = add(rendered, path)
    /\ IF ok
       THEN /\ dirname(path) \in dirs
            /\ files' = files \cup {path}
            /\ UNCHANGED tool_failures
       ELSE /\ \/ /\ dirname(path) \notin dirs
                  /\ UNCHANGED tool_failures
               \/ /\ dirname(path) \in dirs
                  /\ tool_failures < MaxToolFailures
                  /\ tool_failures' = tool_failures + 1
            /\ UNCHANGED files

\* subprocess.call(ffmpeg -y -i filename ... path): writes path, or fails
\* (input unreadable, output directory missing, encoder error) and returns
\* a non-zero status that the caller drops
ffmpeg_transcode(filename, path, ok) ==
    /\ transcoded' = add(transcoded, path)
    /\ IF ok
       THEN /\ filename \in files
            /\ dirname(path) \in dirs
            /\ files' = files \cup {path}
            /\ UNCHANGED <<failed, tool_failures>>
       ELSE /\ \/ /\ filename \notin files \/ dirname(path) \notin dirs
                  /\ UNCHANGED tool_failures
               \/ /\ filename \in files
                  /\ dirname(path) \in dirs
                  /\ tool_failures < MaxToolFailures
                  /\ tool_failures' = tool_failures + 1
            /\ failed' = failed \cup {"transcode"}
            /\ UNCHANGED files

\* create_single_title_card, lines 46-54, run by pool worker w on its next item
StartTitleCard(w) ==
    /\ pc = "map_title_cards"
    /\ can_take(w)
    /\ LET item == taken_item(w)
           last == taken_last(w)
           path == title_card_path(tasks[item])
       IN  /\ next_task' = IF item = next_task THEN last + 1 ELSE next_task
           /\ IF title_card_created(path)
              THEN finish_item(w, "title_cards", item, last, FALSE)
              ELSE /\ worker' = [worker EXCEPT ![w] =
                          [pc |-> "run", phase |-> "title_cards", item |-> item, last |-> last]]
                   /\ UNCHANGED <<number_left, completed>>
    /\ UNCHANGED <<PERFORMER_DATA, manifest_writes, concat_read, tasks, files, dirs, manifest, pc, map_error, rendered,
                   transcoded, concat_calls, tool_failures, failed, error, launched,
                   files0, dirs0, calls, final_clips, exc>>

\* create_single_title_card, lines 56-118, run by pool worker w
RenderTitleCard(w) ==
    /\ worker[w].pc = "run"
    /\ worker[w].phase = "title_cards"
    /\ LET item == worker[w].item
           path == title_card_path(tasks[item])
           card == title_card_clips(tasks[item])
           raise == /\ finish_item(w, "title_cards", item, worker[w].last, TRUE)
                    /\ map_error' = IF map_error = "none" THEN "raised" ELSE map_error
                    /\ failed' = failed \cup {"render"}
       IN  IF card.error # "none"
           THEN raise /\ UNCHANGED <<rendered, files, tool_failures>>
           ELSE \E ok \in BOOLEAN :
                   /\ write_videofile(path, ok)
                   /\ IF ok
                      THEN /\ finish_item(w, "title_cards", item, worker[w].last, FALSE)
                           /\ UNCHANGED <<map_error, failed>>
                      ELSE raise
    /\ UNCHANGED <<PERFORMER_DATA, manifest_writes, concat_read, tasks, dirs, manifest, pc, next_task, transcoded,
                   concat_calls, error, launched, files0, dirs0, calls, final_clips, exc>>

\* pool.map of create_title_cards re-raises a worker's exception in __main__
TitleCardsRaise ==
    /\ pc = "map_title_cards"
    /\ map_ready
    /\ map_error # "none"
    /\ pc' = "aborted"
    /\ UNCHANGED <<PERFORMER_DATA, manifest_writes, concat_read, tasks, files, dirs, manifest, worker, next_task, number_left,
                   map_error, rendered, transcoded, concat_calls, tool_failures, failed,
                   error, launched, completed, files0, dirs0, calls, final_clips, exc>>

\* create_title_cards returns; convert_videos up to the pool.map call
ConvertVideos ==
    /\ pc = "map_title_cards"
    /\ map_ready
    /\ map_error = "none"
    /\ dirs' = dirs \cup {CONVERTED_VIDEOS_FOLDER}
    /\ launch_map("convert", get_final_videos(TRUE, FALSE))
    /\ pc' = "map_convert"
    /\ UNCHANGED <<PERFORMER_DATA, manifest_writes, concat_read, files, manifest, worker, rendered, transcoded,
                   concat_calls, tool_failures, failed, error, completed, files0, dirs0,
                   calls, final_clips, exc>>

\* convert_single_video, lines 220-226, run by pool worker w on its next item
StartConvert(w) ==
    /\ pc = "map_convert"
    /\ can_take(w)
    /\ LET item == taken_item(w)
           last == taken_last(w)
           path == video_path(tasks[item])
       IN  /\ next_task' = IF item = next_task THEN last + 1 ELSE next_task
           /\ IF video_converted(path)
              THEN finish_item(w, "convert", item, last, FALSE)
              ELSE /\ worker' = [worker EXCEPT ![w] =
                          [pc |-> "run", phase |-> "convert", item |-> item, last |-> last]]
                   /\ UNCHANGED <<number_left, completed>>
    /\ UNCHANGED <<PERFORMER_DATA, manifest_writes, concat_read, tasks, files, dirs, manifest, pc, map_error, rendered,
                   transcoded, concat_calls, tool_failures, failed, error, launched,
                   files0, dirs0, calls, final_clips, exc>>

\* convert_single_video, lines 228-233, run by pool worker w
RunConvert(w) ==
    /\ worker[w].pc = "run"
    /\ worker[w].phase = "convert"
    /\ LET item == worker[w].item
       IN  /\ \E path \in {video_path(tasks[item])} : \E ok \in BOOLEAN :
                 ffmpeg_transcode(tasks[item], path, ok)
           /\ finish_item(w, "convert", item, worker[w].last, FALSE)
    /\ UNCHANGED <<PERFORMER_DATA, manifest_writes, concat_read, tasks, dirs, manifest, pc, next_task, map_error, rendered,
                   concat_calls, error, launched, files0, dirs0, calls, final_clips, exc>>

\* create_video_list_file, line 188
video_list_lines(all_videos) == [i \in 1..Len(all_videos) |-> file_directive(all_videos[i])]

\* subprocess.call(ffmpeg -f concat -i all_videos.txt -c copy FINAL_VIDEO.mp4):
\* writes the output, or fails (empty or dangling manifest, tool error)
ffmpeg_concat(all_videos, ok) ==
    LET usable == all_videos # <<>> /\ \A i \in 1..Len(all_videos) : all_videos[i] \in files
    IN  /\ concat_calls' = concat_calls + 1
        /\ IF ok
           THEN /\ usable
                /\ files' = files \cup {ALL_VIDEOS_TXT_FILE, FINAL_VIDEO}
                /\ UNCHANGED <<failed, tool_failures>>
           ELSE /\ \/ /\ ~usable
                      /\ UNCHANGED tool_failures
                   \/ /\ usable
                      /\ tool_failures < MaxToolFailures
                      /\ tool_failures' = tool_failures + 1
                /\ files' = files \cup {ALL_VIDEOS_TXT_FILE}
                /\ failed' = failed \cup {"concat"}

\* the paths ffmpeg's concat demuxer takes from the lines of a manifest
manifest_paths(lines) == [i \in 1..Len(lines) |-> SubSeq(lines[i], 7, Len(lines[i]) - 1)]

\* stitch_videos invoking ffmpeg on all_videos.txt before rewriting it
StitchVideos_concat_first ==
    /\ pc = "map_convert"
    /\ map_ready
    /\ concat_read' = manifest
    /\ \E ok \in BOOLEAN : ffmpeg_concat(manifest_paths(manifest), ok)
    /\ manifest' = video_list_lines(get_final_videos(TRUE, TRUE))
    /\ manifest_writes' = manifest_writes + 1
    /\ pc' = "cleanup"
    /\ UNCHANGED <<PERFORMER_DATA, tasks, dirs, worker, next_task, number_left, map_error,
                   rendered, transcoded, error, launched, completed, files0, dirs0,
                   calls, final_clips, exc>>

\* convert_videos returns; stitch_videos: create_video_list_file writes the
\* manifest, then ffmpeg concat reads it
StitchVideos ==
    /\ pc = "map_convert"
    /\ map_ready
    /\ manifest' = video_list_lines(get_final_videos(TRUE, TRUE))
    /\ manifest_writes' = manifest_writes + 1
    /\ concat_read' = manifest'
    /\ \E ok \in BOOLEAN : ffmpeg_concat(manifest_paths(manifest'), ok)
    /\ pc' = "cleanup"
    /\ UNCHANGED <<PERFORMER_DATA, tasks, dirs, worker, next_task, number_left, map_error,
                   rendered, transcoded, error, launched, completed, files0, dirs0,
                   calls, final_clips, exc>>

\* path p lies below directory d
under(p, d) == Len(p) > Len(d) /\ SubSeq(p, 1, Len(d) + 1) = d \o slash

\* shutil.rmtree(d)
rmtree_files(d) == { f \in files : ~under(f, d) }
rmtree_dirs(d) == { x \in dirs : x # d /\ ~under(x, d) }

\* cleanup removing the title cards as well
Cleanup_all_folders ==
    /\ pc = "cleanup"
    /\ files' = { f \in rmtree_files(CONVERTED_VIDEOS_FOLDER) :
                    ~under(f, TITLE_CARDS_FOLDER) } \ {ALL_VIDEOS_TXT_FILE}
    /\ dirs' = { d \in rmtree_dirs(CONVERTED_VIDEOS_FOLDER) :
                    d # TITLE_CARDS_FOLDER /\ ~under(d, TITLE_CARDS_FOLDER) }
    /\ manifest' = <<>>
    /\ pc' = "done"
    /\ UNCHANGED <<PERFORMER_DATA, manifest_writes, concat_read, tasks, worker, next_task, number_left, map_error, rendered,
                   transcoded, concat_calls, tool_failures, failed, error, launched,
                   completed, files0, dirs0, calls, final_clips, exc>>

\* cleanup, lines 264-266
Cleanup ==
    /\ pc = "cleanup"
    /\ files' = rmtree_files(CONVERTED_VIDEOS_FOLDER) \ {ALL_VIDEOS_TXT_FILE}
    /\ dirs' = rmtree_dirs(CONVERTED_VIDEOS_FOLDER)
    /\ manifest' = <<>>
    /\ pc' = "done"
    /\ UNCHANGED <<PERFORMER_DATA, manifest_writes, concat_read, tasks, worker, next_task, number_left, map_error, rendered,
                   transcoded, concat_calls, tool_failures, failed, error, launched,
                   completed, files0, dirs0, calls, final_clips, exc>>

Next ==
    \/ EnsureVideosExist
    \/ CreateTitleCards
    \/ \E w \in Workers : StartTitleCard(w)
    \/ \E w \in Workers : RenderTitleCard(w)
    \/ TitleCardsRaise
    \/ ConvertVideos
    \/ \E w \in Workers : StartConvert(w)
    \/ \E w \in Workers : RunConvert(w)
    \/ StitchVideos
    \/ Cleanup

Spec == Init /\ [][Next]_vars

(***************************************************************************)
(* The two work functions called directly, one record at a time            *)
(***************************************************************************)
InitCalls ==
    /\ PERFORMER_DATA \in { <<r>> : r \in CallRecords }
    /\ \E left \in SUBSET leftover_candidates(PERFORMER_DATA) :
          files = seq_set(get_final_videos_of(PERFORMER_DATA, FALSE, FALSE))
                    \cup left
    /\ dirs = UNION { ancestors(f) : f \in files }
                \cup {TITLE_CARDS_FOLDER, CONVERTED_VIDEOS_FOLDER}
    /\ manifest = <<>>
    /\ pc = "calls"
    /\ tasks = <<>>
    /\ worker = [w \in Workers |-> idle_worker]
    /\ next_task = 1
    /\ number_left = 0
    /\ map_error = "none"
    /\ rendered = empty_bag
    /\ transcoded = empty_bag
    /\ concat_calls = 0
    /\ manifest_writes = 0
    /\ concat_read = <<>>
    /\ tool_failures = 0
    /\ failed = {}
    /\ error = <<>>
    /\ launched = [p \in {"title_cards", "convert"} |-> 0]
    /\ completed = [p \in {"title_cards", "convert"} |-> 0]
    /\ files0 = files
    /\ dirs0 = dirs
    /\ calls = empty_bag
    /\ final_clips = <<>>
    /\ exc = "none"

\* create_single_title_card(performer_data), lines 46-118
create_single_title_card(performer_data) ==
    LET path == title_card_path(performer_data)
        card == title_card_clips(performer_data)
    IN  /\ pc = "calls"
        /\ count(calls, path) < MaxCalls
        /\ calls' = add(calls, path)
        /\ IF title_card_created(path)
           THEN /\ exc' = "none"
                /\ UNCHANGED <<files, rendered, tool_failures, final_clips>>
           ELSE IF card.error # "none"
           THEN /\ exc' = card.error
                /\ UNCHANGED <<files, rendered, tool_failures, final_clips>>
           ELSE /\ final_clips' = card.clips
                /\ \E ok \in BOOLEAN :
                      /\ write_videofile(path, ok)
                      /\ exc' = IF ok THEN "none" ELSE "IOError"
        /\ UNCHANGED <<PERFORMER_DATA, manifest_writes, concat_read, tasks, dirs, manifest, pc, worker, next_task,
                       number_left, map_error, transcoded, concat_calls, failed, error,
                       launched, completed, files0, dirs0>>

\* convert_single_video(filename), lines 220-233
convert_single_video(filename) ==
    LET path == video_path(filename)
    IN  /\ pc = "calls"
        /\ count(calls, path) < MaxCalls
        /\ calls' = add(calls, path)
        /\ IF video_converted(path)
           THEN UNCHANGED <<files, transcoded, tool_failures, failed>>
           ELSE \E ok \in BOOLEAN : ffmpeg_transcode(filename, path, ok)
        /\ UNCHANGED <<PERFORMER_DATA, manifest_writes, concat_read, tasks, dirs, manifest, pc, worker, next_task,
                       number_left, map_error, rendered, concat_calls, error, launched,
                       completed, files0, dirs0, final_clips, exc>>

NextCalls ==
    \/ \E i \in 1..Len(PERFORMER_DATA) : create_single_title_card(PERFORMER_DATA[i])
    \/ \E v \in seq_set(get_final_videos(TRUE, FALSE)) : convert_single_video(v)

SpecCalls == InitCalls /\ [][NextCalls]_vars

(***************************************************************************)
(* A full run over what an aborted earlier run left on disk                *)
(***************************************************************************)
\* rows whose optional cells are all filled in; the upper-case twin adds no
\* target of its own
ResumeRecords ==
    { r \in Records :
        field_given(r["Description"]) /\ r["Video File Name"] # <<"A">> }

\* every source video is present; any subset of the title cards and
\* converted files of the sheet is already there
InitResume ==
    /\ PERFORMER_DATA \in SeqsUpTo(ResumeRecords, MaxPerformers)
    /\ \E left \in SUBSET leftover_candidates(PERFORMER_DATA) :
          files = seq_set(get_final_videos_of(PERFORMER_DATA, FALSE, FALSE)) \cup left
    /\ dirs = UNION { ancestors(f) : f \in files }
    /\ manifest = <<>>
    /\ pc = "start"
    /\ tasks = <<>>
    /\ worker = [w \in Workers |-> idle_worker]
    /\ next_task = 1
    /\ number_left = 0
    /\ map_error = "none"
    /\ rendered = empty_bag
    /\ transcoded = empty_bag
    /\ concat_calls = 0
    /\ manifest_writes = 0
    /\ concat_read = <<>>
    /\ tool_failures = 0
    /\ failed = {}
    /\ error = <<>>
    /\ launched = [p \in {"title_cards", "convert"} |-> 0]
    /\ completed = [p \in {"title_cards", "convert"} |-> 0]
    /\ files0 = files
    /\ dirs0 = dirs
    /\ calls = empty_bag
    /\ final_clips = <<>>
    /\ exc = "none"

SpecResume == InitResume /\ [][Next]_vars


(***************************************************************************)
(* Scheduling: __main__ blocks only in pool.map and subprocess.call, the    *)
(* pool's worker processes are scheduled by the operating system, and       *)
(* write_videofile / ffmpeg are taken to return                             *)
(***************************************************************************)
\* a complete row, and a row whose Description cell is a dash
LiveRecords ==
    { r \in Records : r["Video File Name"] \in {<<"a">>, <<"c", ".", "m", "p", "4">>} }

\* a first run in a directory that holds the source videos, all of them or
\* all but the first row's
InitLive ==
    /\ PERFORMER_DATA \in SeqsUpTo(LiveRecords, MaxPerformers)
    /\ \E gone \in {{}, {get_final_videos_of(PERFORMER_DATA, FALSE, FALSE)[1]}} :
          files = seq_set(get_final_videos_of(PERFORMER_DATA, FALSE, FALSE)) \ gone
    /\ dirs = UNION { ancestors(f) : f \in files }
    /\ manifest = <<>>
    /\ pc = "start"
    /\ tasks = <<>>
    /\ worker = [w \in Workers |-> idle_worker]
    /\ next_task = 1
    /\ number_left = 0
    /\ map_error = "none"
    /\ rendered = empty_bag
    /\ transcoded = empty_bag
    /\ concat_calls = 0
    /\ manifest_writes = 0
    /\ concat_read = <<>>
    /\ tool_failures = 0
    /\ failed = {}
    /\ error = <<>>
    /\ launched = [p \in {"title_cards", "convert"} |-> 0]
    /\ completed = [p \in {"title_cards", "convert"} |-> 0]
    /\ files0 = files
    /\ dirs0 = dirs
    /\ calls = empty_bag
    /\ final_clips = <<>>
    /\ exc = "none"

\* the steps of the __main__ process, lines 280-289
MainStep ==
    \/ EnsureVideosExist
    \/ CreateTitleCards
    \/ TitleCardsRaise
    \/ ConvertVideos
    \/ StitchVideos
    \/ Cleanup

\* the steps of pool worker w, lines 131 and 248
WorkerStep(w) ==
    \/ StartTitleCard(w)
    \/ RenderTitleCard(w)
    \/ StartConvert(w)
    \/ RunConvert(w)

FairSpec ==
    /\ InitLive
    /\ [][Next]_vars
    /\ WF_vars(MainStep)
    /\ \A w \in Workers : WF_vars(WorkerStep(w))
(***************************************************************************)
(* Properties                                                              *)
(***************************************************************************)
\* the resolved source video path of a record
source_path(performer) == get_video_filename(performer["Video File Name"], TRUE)

starts_with(s, prefix) == Len(s) >= Len(prefix) /\ SubSeq(s, 1, Len(prefix)) = prefix

no_launch == [p \in {"title_cards", "convert"} |-> 0]

\* C1: the manifest stitch_videos writes has exactly two lines per performer,
\* title card then video, in the order of the performer sequence, whatever
\* order the workers finished in
ManifestMirrorsPerformerOrder ==
    pc = "cleanup" =>
        /\ Len(manifest) = 2 * Len(PERFORMER_DATA)
        /\ \A i \in 1..Len(PERFORMER_DATA) :
              LET entries == final_video_entries(PERFORMER_DATA[i], TRUE, TRUE)
              IN  /\ manifest[2 * i - 1] = file_directive(entries[1])
                  /\ manifest[2 * i] = file_directive(entries[2])

ManifestWrittenForTwoPerformers ==
    /\ pc = "cleanup"
    /\ Len(PERFORMER_DATA) = 2
    /\ PERFORMER_DATA[1]["Video File Name"] # PERFORMER_DATA[2]["Video File Name"]
    /\ Len(manifest) = 4

\* C2: when some source video is missing at the start, the run stops in
\* ensure_videos_exist and nothing was rendered, transcoded, concatenated,
\* created or removed
PreflightAbortsBeforeSideEffects ==
    ((\E i \in 1..Len(PERFORMER_DATA) : source_path(PERFORMER_DATA[i]) \notin files0)
        /\ pc # "start")
    => /\ pc = "aborted"
       /\ "preflight" \in failed
       /\ files = files0
       /\ dirs = dirs0
       /\ manifest = (IF ALL_VIDEOS_TXT_FILE \in files0 THEN stale_manifest ELSE <<>>)
       /\ rendered = empty_bag
       /\ transcoded = empty_bag
       /\ concat_calls = 0
       /\ launched = no_launch
       /\ completed = no_launch
       /\ \A w \in Workers : worker[w] = idle_worker

PreflightAborted ==
    /\ pc = "aborted"
    /\ "preflight" \in failed
    /\ Len(PERFORMER_DATA) = 2
    /\ files0 # {}

\* C3: the preflight error lists every missing source path and no present
\* one, in performer order
PreflightReportsExactlyMissing ==
    "preflight" \in failed =>
        LET missing == { i \in 1..Len(PERFORMER_DATA) :
                            source_path(PERFORMER_DATA[i]) \notin files0 }
        IN  /\ Len(error) = Cardinality(missing)
            /\ \A i \in missing :
                  error[Cardinality({ k \in missing : k <= i })]
                      = source_path(PERFORMER_DATA[i])

PreflightReportsOneOfTwo ==
    /\ "preflight" \in failed
    /\ Len(PERFORMER_DATA) = 2
    /\ Len(error) = 1
    /\ error[1] = source_path(PERFORMER_DATA[2])

\* C4 as stated: two calls on the same record or source path invoke the
\* renderer / transcoder at most once for the target path
ToolInvokedAtMostOncePerTarget ==
    \A t \in DOMAIN calls : count(rendered, t) <= 1 /\ count(transcoded, t) <= 1

\* C4 as amended: a call made while its target exists invokes nothing, and
\* any call invokes the renderer / transcoder at most once, so once the
\* target is on disk every later call is a no-op
NoInvocationOnceTargetExists ==
    [][\A t \in DOMAIN calls' :
          /\ count(rendered', t) <= count(rendered, t) + 1
          /\ count(transcoded', t) <= count(transcoded, t) + 1
          /\ (count(calls', t) > count(calls, t) /\ (t \in files \/ t \in dirs))
                => /\ count(rendered', t) = count(rendered, t)
                   /\ count(transcoded', t) = count(transcoded, t)
                   /\ files' = files]_vars

SecondCallSkipped ==
    \E t \in DOMAIN calls :
        /\ count(calls, t) = 2
        /\ t \notin files0
        /\ t \in files
        /\ count(rendered, t) + count(transcoded, t) = 1

worker_target(w) ==
    IF worker[w].phase = "title_cards" THEN title_card_path(tasks[worker[w].item])
    ELSE video_path(tasks[worker[w].item])

\* the source file behind the item worker w holds
worker_source(w) ==
    IF worker[w].phase = "title_cards"
    THEN source_path(tasks[worker[w].item])
    ELSE tasks[worker[w].item]

\* C6: no two work items of one phase write the same output file; stated
\* here for items that come from different source files
NoTwoItemsWriteSameFile ==
    \A w1, w2 \in Workers :
        (w1 # w2 /\ worker[w1].pc = "run" /\ worker[w2].pc = "run"
            /\ worker[w1].phase = worker[w2].phase
            /\ worker_source(w1) # worker_source(w2))
        => worker_target(w1) # worker_target(w2)

\* C7: cleanup is not executed in a run in which an earlier stage failed
CleanupOnlyAfterSuccess ==
    failed # {} => pc # "done"

\* a cell that holds text to render
present(v) == v # <<>> /\ v # dash /\ v # NaN

\* C8: the clips given to the compositor for a record
expected_clips(r) ==
    <<TextClip(title(r["Name"]), 85, 180),
      TextClip(<<"(">> \o title(r["Location"]) \o <<")">>, 60, 270)>>
    \o (IF present(r["Description"])
        THEN description_clips(split(r["Description"]), 1, 400) ELSE <<>>)
    \o (IF present(r["Composition"])
        THEN <<TextClip(title(r["Composition"]), 80, 620)>> ELSE <<>>)
    \o (IF present(r["Raag"])
        THEN <<TextClip(<<"R", "a", "a", "g", " ">> \o title(r["Raag"]), 70, 730)>>
        ELSE <<>>)
    \o (IF present(r["Taal"])
        THEN <<TextClip(<<"(">> \o title(r["Taal"]) \o <<")">>, 60, 820)>> ELSE <<>>)

\* C8: whatever optional fields are empty or "-", create_single_title_card
\* raises no error of its own and composites exactly the present blocks
OmittedFieldsRenderCleanly ==
    \A i \in 1..Len(PERFORMER_DATA) :
        (pc = "calls"
            /\ count(calls, title_card_path(PERFORMER_DATA[i])) > 0
            /\ title_card_path(PERFORMER_DATA[i]) \notin files0)
        => /\ exc \notin {"NameError", "AttributeError"}
           /\ final_clips = expected_clips(PERFORMER_DATA[i])

\* C9: records whose file names differ only in letter case get the same
\* converted video and converted title-card paths in the manifest, while the
\* raw video path handed to the normalizer keeps the case of the record
CaseInsensitiveConvertedPaths ==
    pc = "cleanup" =>
        \A i, j \in 1..Len(PERFORMER_DATA) :
            LET name_i == PERFORMER_DATA[i]["Video File Name"]
                name_j == PERFORMER_DATA[j]["Video File Name"]
            IN  /\ lower(name_i) = lower(name_j)
                    => /\ manifest[2 * i - 1] = manifest[2 * j - 1]
                       /\ manifest[2 * i] = manifest[2 * j]
                /\ starts_with(tasks[2 * i], name_i)

CaseTwinsStitched ==
    /\ pc = "cleanup"
    /\ Len(PERFORMER_DATA) = 2
    /\ PERFORMER_DATA[1]["Video File Name"] # PERFORMER_DATA[2]["Video File Name"]
    /\ lower(PERFORMER_DATA[1]["Video File Name"]) = lower(PERFORMER_DATA[2]["Video File Name"])

\* C10: cleanup removes the converted-media directory with everything in it
\* and the manifest, and nothing else
CleanupRemovesOnlyIntermediates ==
    [][pc = "cleanup" =>
          /\ pc' = "done"
          /\ CONVERTED_VIDEOS_FOLDER \notin dirs'
          /\ ALL_VIDEOS_TXT_FILE \notin files'
          /\ \A p \in files' \cup dirs' :
                ~starts_with(p, CONVERTED_VIDEOS_FOLDER \o slash)
          /\ files' \subseteq files
          /\ dirs' \subseteq dirs
          /\ \A f \in files :
                (f # ALL_VIDEOS_TXT_FILE /\ ~starts_with(f, CONVERTED_VIDEOS_FOLDER \o slash))
                    => f \in files'
          /\ \A d \in dirs :
                (d # CONVERTED_VIDEOS_FOLDER
                    /\ ~starts_with(d, CONVERTED_VIDEOS_FOLDER \o slash))
                    => d \in dirs'
          /\ TITLE_CARDS_FOLDER \in dirs'
          /\ \A i \in 1..Len(PERFORMER_DATA) : source_path(PERFORMER_DATA[i]) \in files'
          /\ (FINAL_VIDEO \in files <=> FINAL_VIDEO \in files')]_vars

CleanedUpAfterFullRun ==
    /\ pc = "done"
    /\ transcoded # empty_bag
    /\ FINAL_VIDEO \in files
    /\ \E f \in files : starts_with(f, TITLE_CARDS_FOLDER \o slash)
    /\ CONVERTED_VIDEOS_FOLDER \notin dirs

\* C11: every path of the manifest is the target convert_single_video writes
\* for the corresponding item of get_final_videos(), so with every
\* transcode successful every manifest entry is on disk for the concatenation
ManifestEntriesAreConvertTargets ==
    pc = "cleanup" =>
        /\ Len(manifest) = Len(tasks)
        /\ \A k \in 1..Len(tasks) :
              /\ manifest[k] = file_directive(video_path(tasks[k]))
              /\ "transcode" \notin failed
                    => get_final_videos(TRUE, TRUE)[k] \in files

\* C12: the title-card path the normalization phase receives for a record is
\* the path create_single_title_card writes for it, so it is on disk once
\* the title-card phase has completed
TitleCardInputsAreRenderedPaths ==
    pc \in {"map_convert", "cleanup"} =>
        \A i \in 1..Len(PERFORMER_DATA) :
            /\ tasks[2 * i - 1] = title_card_path(PERFORMER_DATA[i])
            /\ tasks[2 * i - 1] \in files

\* C13: a run over the leftovers of an earlier run renders only title cards
\* that were absent and transcodes only to converted files that were absent;
\* a target that was already there is never rendered or transcoded again
OnlyAbsentTargetsAreProduced ==
    /\ \A t \in DOMAIN rendered :
          t \notin files0 /\ t \in title_card_targets(PERFORMER_DATA)
    /\ \A t \in DOMAIN transcoded :
          t \notin files0 /\ t \in converted_targets(PERFORMER_DATA)
    /\ pc # "done" => \A t \in files0 : t \in files

ResumedRunFinished ==
    /\ pc = "cleanup"
    /\ \E t \in title_card_targets(PERFORMER_DATA) : t \in files0
    /\ \E t \in converted_targets(PERFORMER_DATA) : t \in files0
    /\ \E t \in converted_targets(PERFORMER_DATA) : t \notin files0
    /\ rendered # empty_bag
    /\ transcoded # empty_bag

\* C14 as stated: a run that has passed preflight and has ended wrote the
\* manifest exactly once; stated here for sheets whose rows have every cell
\* filled in and a file name without directory
RunPastPreflightWritesManifestOnce ==
    (pc \in {"aborted", "done"}
        /\ "preflight" \notin failed
        /\ \A i \in 1..Len(PERFORMER_DATA) :
              /\ title_card_clips(PERFORMER_DATA[i]).error = "none"
              /\ dirname(title_card_path(PERFORMER_DATA[i])) = TITLE_CARDS_FOLDER)
    => manifest_writes = 1

\* C14 as amended: the manifest is written only by stitch_videos, once,
\* after every normalization item has completed; the concatenation tool is
\* given the manifest of this run, never an older one; cleanup deletes it;
\* a run aborted in the title-card phase writes no manifest
ManifestWrittenOnceBeforeConcat ==
    /\ manifest_writes <= 1
    /\ concat_calls = manifest_writes
    /\ manifest_writes = 1 <=> pc \in {"cleanup", "done"}
    /\ manifest_writes = 1 =>
          /\ launched["convert"] = 1
          /\ completed["convert"] = 2 * Len(PERFORMER_DATA)
          /\ \A w \in Workers : worker[w].pc = "idle"
          /\ Len(concat_read) = 2 * Len(PERFORMER_DATA)
          /\ \A i \in 1..Len(PERFORMER_DATA) :
                LET entries == final_video_entries(PERFORMER_DATA[i], TRUE, TRUE)
                IN  /\ concat_read[2 * i - 1] = file_directive(entries[1])
                    /\ concat_read[2 * i] = file_directive(entries[2])
    /\ pc = "cleanup" => ALL_VIDEOS_TXT_FILE \in files /\ manifest = concat_read
    /\ pc = "done" => ALL_VIDEOS_TXT_FILE \notin files /\ manifest = <<>>
    /\ (pc = "aborted" /\ ALL_VIDEOS_TXT_FILE \in files)
          => ALL_VIDEOS_TXT_FILE \in files0 /\ manifest = stale_manifest

StaleManifestReplaced ==
    /\ pc = "cleanup"
    /\ ALL_VIDEOS_TXT_FILE \in files0
    /\ Len(PERFORMER_DATA) = 2
    /\ manifest # stale_manifest

\* C15: with tools that return and fairly scheduled workers, every run ends,
\* aborted (preflight failure or a worker exception re-raised by the pool)
\* or completed through cleanup, and no phase whose work items have all
\* finished is waited in forever
RunTerminates ==
    /\ <>(pc \in {"aborted", "done"})
    /\ (pc = "map_title_cards" /\ map_ready) ~> (pc # "map_title_cards")
    /\ (pc = "map_convert" /\ map_ready) ~> (pc # "map_convert")
    /\ [](pc = "aborted" => failed \cap {"preflight", "render"} # {})
    /\ [](pc = "done" => manifest_writes = 1 /\ \A w \in Workers : worker[w].pc = "idle")

AbortedByWorkerException ==
    /\ pc = "aborted"
    /\ map_error # "none"
    /\ Len(tasks) = 2
    /\ completed["title_cards"] = 2

====
